---- MODULE Spec2Model ----
(***************************************************************************)
(* Compression models of audiocraft/models/encodec.py: the SQCodec ternary *)
(* backend (radix-3 packing of latent digit groups), the codebook-count    *)
(* configuration of every backend, and InterleaveStereoCompressionModel.   *)
(*                                                                         *)
(* self is the model object (a record of the fields its class assigns),    *)
(* out is the record of the call in progress on it: the arguments, the     *)
(* exception raised (err = "none" when it returned) and the result; out is *)
(* Idle between calls.                                                     *)
(***************************************************************************)
EXTENDS Integers, Sequences, FiniteSets, TLC

VARIABLES self, out

vars == <<self, out>>

(***************************************************************************)
(* Bounds of the model.                                                    *)
(***************************************************************************)
\* rows of the latent ScalarModel.encode returns ("[bt, 36, 1500]": 36 for
\* the checkpoint, the constructor's emb_dim * n_codebook)
LatentDim == 4
\* largest n handed to set_num_codebooks and set_cardinality
MaxArg == 4
\* widest code tensor handed to SQCodec.decode and decode_latent
MaxCodesIn == 2
\* largest code handed to them, besides 3^emb_dim - 1 and 3^emb_dim
MaxCodeIn == 3

(***************************************************************************)
(* Helpers.                                                                *)
(***************************************************************************)
Min(a, b) == IF a < b THEN a ELSE b

CeilDiv(a, b) == (a + b - 1) \div b

RECURSIVE Pow3(_)
Pow3(d) == IF d = 0 THEN 1 ELSE 3 * Pow3(d - 1)

Reverse(s) == [i \in 1..Len(s) |-> s[Len(s) + 1 - i]]

RECURSIVE Flatten(_)
Flatten(ss) == IF ss = <<>> THEN <<>> ELSE Head(ss) \o Flatten(Tail(ss))

\* every sequence over S of a length in lens
SeqsOf(S, lens) == UNION {[1..n -> S] : n \in lens}

NoTensor == <<>>

(***************************************************************************)
(* utils.ternary_matrix_to_decimal / decimal_to_ternary_matrix (RadixCodec)*)
(* for one (batch, time) column: a digit group is a sequence of digits.    *)
(***************************************************************************)
RECURSIVE PackValue(_)
PackValue(v) ==
    IF v = <<>> THEN 0
    ELSE 3 * PackValue(SubSeq(v, 1, Len(v) - 1)) + v[Len(v)]

\* pack: base-3 positional value, most significant digit first
ternary_matrix_to_decimal(v) ==
    IF \E i \in 1..Len(v) : v[i] \notin {0, 1, 2}
    THEN [err |-> "InvalidDigit", val |-> 0]
    ELSE [err |-> "none", val |-> PackValue(v)]

RECURSIVE DigitsLSB(_, _)
DigitsLSB(code, D) ==
    IF D = 0 THEN <<>>
    ELSE <<code % 3>> \o DigitsLSB(code \div 3, D - 1)

\* unpack: code mod 3, divide by 3, D times, least significant first, reversed
decimal_to_ternary_matrix(code, D) ==
    IF code < 0 \/ code >= Pow3(D)
    THEN [err |-> "OutOfRange", val |-> <<>>]
    ELSE [err |-> "none", val |-> Reverse(DigitsLSB(code, D))]

(***************************************************************************)
(* SQCodec.                                                                *)
(***************************************************************************)
\* torch.Tensor.chunk(n, dim=1): slices of ceil(L/n) rows, the last shorter
chunk(z, n) ==
    LET size == CeilDiv(Len(z), n)
        cnt == CeilDiv(Len(z), size)
    IN  [i \in 1..cnt |-> SubSeq(z, (i - 1) * size + 1, Min(i * size, Len(z)))]

\* the latent columns ScalarModel.encode produces: ternary values -1, 0, 1
Latents == [1..LatentDim -> {-1, 0, 1}]

Shift(z, d) == [i \in 1..Len(z) |-> z[i] + d]

SQCodec(emb_dim, use_ternary) ==
    [class |-> "SQCodec",
     n_codebook |-> LatentDim \div emb_dim,
     dim_codebook |-> Pow3(emb_dim),
     emb_dim |-> emb_dim,
     use_ternary |-> use_ternary]

SQCodec_total_codebooks(s) == s.n_codebook

SQCodec_num_codebooks(s) == s.n_codebook

SQCodec_cardinality(s) == s.dim_codebook

\* set_num_codebooks: assert n >= 1, nothing else
SQCodec_set_num_codebooks(s, n) ==
    IF n >= 1
    THEN [err |-> "none", self |-> [s EXCEPT !.n_codebook = n]]
    ELSE [err |-> "AssertionError", self |-> s]

SQCodec_set_cardinality(s, n) ==
    IF n >= 1
    THEN [err |-> "none", self |-> [s EXCEPT !.dim_codebook = n]]
    ELSE [err |-> "AssertionError", self |-> s]

\* encode with the shift of line 449 left out
SQCodec_encode_noshift(s, z) ==
    IF s.use_ternary
    THEN [err |-> "none", codes |-> Shift(z, 1)]
    ELSE LET chunks == chunk(z, s.n_codebook)
             packed == [i \in 1..Len(chunks) |-> ternary_matrix_to_decimal(chunks[i])]
         IN  IF \E i \in 1..Len(chunks) : packed[i].err # "none"
             THEN [err |-> "InvalidDigit", codes |-> NoTensor]
             ELSE [err |-> "none", codes |-> [i \in 1..Len(chunks) |-> packed[i].val]]

SQCodec_encode(s, z) ==
    IF s.use_ternary
    THEN [err |-> "none", codes |-> Shift(z, 1)]
    ELSE LET chunks == chunk(z, s.n_codebook)
             packed == [i \in 1..Len(chunks) |->
                           ternary_matrix_to_decimal(Shift(chunks[i], 1))]
         IN  IF \E i \in 1..Len(chunks) : packed[i].err # "none"
             THEN [err |-> "InvalidDigit", codes |-> NoTensor]
             ELSE [err |-> "none", codes |-> [i \in 1..Len(chunks) |-> packed[i].val]]

\* decode_latent's loop: codebook i of the codes, offs[i] subtracted from it
DecodeLoop(s, codes, offs) ==
    LET step(i) == IF i > Len(codes)
                   THEN [err |-> "IndexError", val |-> <<>>]
                   ELSE decimal_to_ternary_matrix(codes[i] - offs[i], s.emb_dim)
        bad == {i \in 1..s.n_codebook : step(i).err # "none"}
    IN  IF bad # {}
        THEN [err |-> step(CHOOSE i \in bad : \A j \in bad : i <= j).err,
              emb |-> NoTensor]
        ELSE [err |-> "none",
              emb |-> Flatten([i \in 1..s.n_codebook |-> Shift(step(i).val, -1)])]

\* decode_latent with the commented-out lines 512-513 active
SQCodec_decode_latent_offset(s, codes) ==
    DecodeLoop(s, codes, [i \in 1..s.n_codebook |-> (i - 1) * s.dim_codebook])

SQCodec_decode_latent(s, codes) ==
    DecodeLoop(s, codes, [i \in 1..s.n_codebook |-> 0])

\* decode: the latent handed to scalar_codec.decode
SQCodec_decode(s, codes, scale) ==
    IF scale # NoTensor THEN [err |-> "AssertionError", emb |-> NoTensor]
    ELSE IF s.use_ternary THEN [err |-> "none", emb |-> Shift(codes, -1)]
    ELSE SQCodec_decode_latent(s, codes)

\* code tensors a caller hands to decode_latent and decode
CodesIn(s) ==
    SeqsOf((-1..MaxCodeIn) \cup {Pow3(s.emb_dim) - 1, Pow3(s.emb_dim)},
           1..MaxCodesIn)

Idle ==
    [op |-> "idle", arg |-> 0, err |-> "none", x |-> NoTensor,
     xscale |-> NoTensor, codes |-> NoTensor, scale |-> NoTensor,
     emb |-> NoTensor, calls |-> <<>>, K |-> 0, has_scale |-> FALSE]

\* the call returns to the caller
Return ==
    /\ out # Idle
    /\ out' = Idle
    /\ UNCHANGED self

SQ_set_num_codebooks(n) ==
    /\ self.class = "SQCodec" /\ out = Idle
    /\ LET r == SQCodec_set_num_codebooks(self, n)
       IN  /\ self' = r.self
           /\ out' = [Idle EXCEPT !.op = "set_num_codebooks", !.arg = n,
                                  !.err = r.err]

SQ_encode(z) ==
    /\ self.class = "SQCodec" /\ out = Idle
    /\ LET r == SQCodec_encode(self, z)
       IN  out' = [Idle EXCEPT !.op = "encode", !.err = r.err, !.x = z,
                               !.codes = r.codes]
    /\ UNCHANGED self

\* the codes are either a caller's or, with fromEncode, those the encode
\* just made returned: x then keeps the latent that was encoded
SQ_decode_latent(codes, fromEncode) ==
    /\ self.class = "SQCodec"
    /\ IF fromEncode
       THEN out.op = "encode" /\ out.err = "none" /\ codes = out.codes
       ELSE out = Idle
    /\ LET r == SQCodec_decode_latent(self, codes)
       IN  out' = [Idle EXCEPT !.op = "decode_latent", !.err = r.err,
                               !.x = IF fromEncode THEN out.x ELSE NoTensor,
                               !.codes = codes, !.emb = r.emb]
    /\ UNCHANGED self

\* encode, then decode, as the module's main block does, or decode of a
\* caller's codes
SQ_decode(codes, scale, fromEncode) ==
    /\ self.class = "SQCodec"
    /\ IF fromEncode
       THEN out.op = "encode" /\ out.err = "none" /\ codes = out.codes
       ELSE out = Idle
    /\ LET r == SQCodec_decode(self, codes, scale)
       IN  out' = [Idle EXCEPT !.op = "decode", !.err = r.err,
                               !.x = IF fromEncode THEN out.x ELSE NoTensor,
                               !.codes = codes, !.scale = scale, !.emb = r.emb]
    /\ UNCHANGED self

SQ_forward ==
    /\ self.class = "SQCodec" /\ out = Idle
    /\ out' = [Idle EXCEPT !.op = "forward", !.err = "NotImplementedError"]
    /\ UNCHANGED self

InitSQ ==
    /\ \E d \in 1..LatentDim, t \in BOOLEAN :
          /\ LatentDim % d = 0
          /\ self = SQCodec(d, t)
    /\ out = Idle

\* a call starts when none is in progress (the guard each action states,
\* tested once for all of them)
NextSQ ==
    \/ out = Idle /\ \E n \in 0..MaxArg : SQ_set_num_codebooks(n)
    \/ out = Idle /\ \E z \in Latents : SQ_encode(z)
    \/ out = Idle /\ \E codes \in CodesIn(self) : SQ_decode_latent(codes, FALSE)
    \/ out = Idle /\ \E codes \in CodesIn(self), scale \in {NoTensor, <<1>>} :
                        SQ_decode(codes, scale, FALSE)
    \/ SQ_forward
    \/ SQ_decode_latent(out.codes, TRUE)
    \/ SQ_decode(out.codes, NoTensor, TRUE)
    \/ Return

SpecSQ == InitSQ /\ [][NextSQ]_vars

(***************************************************************************)
(* RadixCodec claims, checked under SpecSQ.                                *)
(***************************************************************************)
\* the groups encode packs: the chunks of the latent, shifted to {0,1,2}
Groups == [i \in 1..Len(chunk(out.x, self.n_codebook)) |->
              Shift(chunk(out.x, self.n_codebook)[i], 1)]

\* C1: decode_latent applied to the codes encode produced (packing backend)
\* returns without error the latent that was encoded: each group of shifted
\* digits is recovered unchanged, unpack(pack(v), D) = v.
C1_RoundTrip ==
    (out.op = "decode_latent" /\ out.x # NoTensor /\ ~self.use_ternary)
        => (out.err = "none" /\ out.emb = out.x)

\* positional (lexicographic, first digit most significant) order of groups
LexLess(v, w) ==
    \E i \in 1..Len(v) : (\A j \in 1..(i - 1) : v[j] = w[j]) /\ v[i] < w[i]

\* the number of digit groups of v's length that precede v
Rank(v) == Cardinality({w \in [1..Len(v) -> {0, 1, 2}] : LexLess(w, v)})

\* C2: pack reads a group as a base-3 number, most significant digit first:
\* the code of every group encode packs is the number of groups of the same
\* length that precede it in positional order (so pack is strictly monotonic,
\* the all-zero group packs to 0 and the all-two group to 3^D - 1); the group
\* [1,0,2,1] packs to 34 and unpacking 34 with D = 4 returns [1,0,2,1].
C2_PackPositional ==
    /\ (out.op = "encode" /\ ~self.use_ternary) =>
          /\ out.err = "none"
          /\ Len(out.codes) = Len(Groups)
          /\ \A i \in 1..Len(Groups) :
                /\ out.codes[i] = Rank(Groups[i])
                /\ (\A j \in 1..Len(Groups[i]) : Groups[i][j] = 0) => out.codes[i] = 0
                /\ (\A j \in 1..Len(Groups[i]) : Groups[i][j] = 2)
                      => out.codes[i] = Pow3(Len(Groups[i])) - 1
                /\ Groups[i] = <<1, 0, 2, 1>> => out.codes[i] = 34
    /\ (out.op = "decode_latent" /\ self.emb_dim = 4 /\ self.n_codebook = 1
           /\ out.codes = <<34>>) =>
          (out.err = "none" /\ Shift(out.emb, 1) = <<1, 0, 2, 1>>)

C2_Witness ==
    /\ out.op = "decode_latent" /\ ~self.use_ternary
    /\ out.x = <<0, -1, 1, 0>> /\ out.codes = <<34>>
    /\ out.emb = <<0, -1, 1, 0>>

\* the codebooks of the argument that decode_latent unpacks, and those of
\* them whose code is outside [0, 3^emb_dim)
Unpacked == 1..Min(Len(out.codes), self.n_codebook)

OutOfRange == {i \in Unpacked : out.codes[i] < 0 \/ out.codes[i] >= Pow3(self.emb_dim)}

\* C3: every code encode packs from a group of length D is in [0, 3^D), and
\* decode_latent fails with OutOfRange, returning no digits, exactly when a
\* code it unpacks with D = emb_dim is negative or >= 3^D.
C3_CodeRange ==
    /\ (out.op = "encode" /\ out.err = "none" /\ ~self.use_ternary) =>
          \A i \in 1..Len(out.codes) :
             out.codes[i] >= 0 /\ out.codes[i] < Pow3(Len(Groups[i]))
    /\ out.op = "decode_latent" =>
          /\ OutOfRange # {} => (out.err = "OutOfRange" /\ out.emb = NoTensor)
          /\ out.err = "OutOfRange" => OutOfRange # {}

C3_Witness ==
    /\ out.op = "decode_latent" /\ out.err = "OutOfRange"
    /\ \E i \in Unpacked : out.codes[i] = Pow3(self.emb_dim)
    /\ \E i \in Unpacked : out.codes[i] = Pow3(self.emb_dim) - 1

(***************************************************************************)
(* The codebook configuration of every backend.  The networks behind DAC,  *)
(* WavTokenizer, HFEncodecCompressionModel and EncodecModel are external:  *)
(* here their tensors are represented by the number of codebooks and the   *)
(* presence of a scale (SpecSQ and SpecStereo represent the contents).     *)
(***************************************************************************)
\* largest number of codebooks of an external network
MaxTotal == 3
\* codebook size of the external networks (model.codebook_size,
\* quantizer.bins, config.codebook_size: 1024 to 4096 in the checkpoints)
Bins == 2

SeqMax(q) == CHOOSE m \in {q[i] : i \in 1..Len(q)} : \A i \in 1..Len(q) : q[i] <= m

InSeq(n, q) == \E i \in 1..Len(q) : q[i] = n

\* DAC.__init__: n_quantizers = total_codebooks = model.n_codebooks
DAC(total) ==
    [class |-> "DAC",
     model |-> [n_codebooks |-> total, codebook_size |-> Bins],
     n_quantizers |-> total]

\* set_num_codebooks storing n before its asserts run
DAC_set_num_codebooks_store_first(s, n) ==
    [err |-> IF n >= 1 /\ n <= s.model.n_codebooks THEN "none"
             ELSE "AssertionError",
     self |-> [s EXCEPT !.n_quantizers = n]]

DAC_set_num_codebooks(s, n) ==
    IF n >= 1 /\ n <= s.model.n_codebooks
    THEN [err |-> "none", self |-> [s EXCEPT !.n_quantizers = n]]
    ELSE [err |-> "AssertionError", self |-> s]

\* WavTokenizer.__init__: cardinality 4096, n_quantizers = total_codebooks = 1;
\* channels stays the class attribute 0
WavTokenizer ==
    [class |-> "WavTokenizer", cardinality |-> Bins, channels |-> 0,
     n_quantizers |-> 1]

WavTokenizer_set_num_codebooks(s, n) ==
    IF n = 1
    THEN [err |-> "none", self |-> [s EXCEPT !.n_quantizers = n]]
    ELSE [err |-> "AssertionError", self |-> s]

\* set_num_codebooks without the membership test of line 663
HFEncodec_set_num_codebooks_unchecked(s, n) ==
    [err |-> "none", self |-> [s EXCEPT !.num_codebooks = n]]

HFEncodec_set_num_codebooks(s, n) ==
    IF ~InSeq(n, s.possible_num_codebooks)
    THEN [err |-> "ValueError", self |-> s]
    ELSE [err |-> "none", self |-> [s EXCEPT !.num_codebooks = n]]

\* HFEncodecCompressionModel.__init__: one codebook count per target
\* bandwidth, the largest one active
HFEncodec(possible, channels, normalize) ==
    HFEncodec_set_num_codebooks(
        [class |-> "HFEncodec",
         model |-> [config |-> [audio_channels |-> channels,
                                codebook_size |-> Bins,
                                normalize |-> normalize]],
         possible_num_codebooks |-> possible,
         num_codebooks |-> 0],
        SeqMax(possible)).self

\* qt.BaseQuantizer.set_num_codebooks (the quantizer of an EncodecModel)
Quantizer_set_num_codebooks(q, n) ==
    IF n >= 1 /\ n <= q.total_codebooks
    THEN [err |-> "none", self |-> [q EXCEPT !.num_codebooks = n]]
    ELSE [err |-> "AssertionError", self |-> q]

EncodecModel(total, channels, renormalize) ==
    [class |-> "EncodecModel",
     quantizer |-> [total_codebooks |-> total, num_codebooks |-> total,
                    bins |-> Bins],
     channels |-> channels,
     renormalize |-> renormalize]

EncodecModel_set_num_codebooks(s, n) ==
    LET r == Quantizer_set_num_codebooks(s.quantizer, n)
    IN  [err |-> r.err, self |-> [s EXCEPT !.quantizer = r.self]]

\* the accessors of the backends that are not the stereo wrapper
Mono_total_codebooks(s) ==
    CASE s.class = "DAC" -> s.model.n_codebooks
      [] s.class = "SQCodec" -> SQCodec_total_codebooks(s)
      [] s.class = "WavTokenizer" -> 1
      [] s.class = "HFEncodec" -> SeqMax(s.possible_num_codebooks)
      [] s.class = "EncodecModel" -> s.quantizer.total_codebooks

Mono_num_codebooks(s) ==
    CASE s.class = "DAC" -> s.n_quantizers
      [] s.class = "SQCodec" -> SQCodec_num_codebooks(s)
      [] s.class = "WavTokenizer" -> 1
      [] s.class = "HFEncodec" -> s.num_codebooks
      [] s.class = "EncodecModel" -> s.quantizer.num_codebooks

Mono_cardinality(s) ==
    CASE s.class = "DAC" -> s.model.codebook_size
      [] s.class = "SQCodec" -> SQCodec_cardinality(s)
      [] s.class = "WavTokenizer" -> s.cardinality
      [] s.class = "HFEncodec" -> s.model.config.codebook_size
      [] s.class = "EncodecModel" -> s.quantizer.bins

Mono_channels(s) ==
    CASE s.class = "DAC" -> 1
      [] s.class = "SQCodec" -> 1
      [] s.class = "WavTokenizer" -> s.channels
      [] s.class = "HFEncodec" -> s.model.config.audio_channels
      [] s.class = "EncodecModel" -> s.channels

Mono_set_num_codebooks(s, n) ==
    CASE s.class = "DAC" -> DAC_set_num_codebooks(s, n)
      [] s.class = "SQCodec" -> SQCodec_set_num_codebooks(s, n)
      [] s.class = "WavTokenizer" -> WavTokenizer_set_num_codebooks(s, n)
      [] s.class = "HFEncodec" -> HFEncodec_set_num_codebooks(s, n)
      [] s.class = "EncodecModel" -> EncodecModel_set_num_codebooks(s, n)

\* InterleaveStereoCompressionModel(model, per_timestep)
InterleaveStereo(m, per_timestep) ==
    [class |-> "InterleaveStereo", model |-> m, per_timestep |-> per_timestep]

Interleave_total_codebooks(s) == Mono_total_codebooks(s.model)

Interleave_num_codebooks(s) ==
    IF s.per_timestep THEN Mono_num_codebooks(s.model)
    ELSE Mono_num_codebooks(s.model) * 2

Interleave_cardinality(s) == Mono_cardinality(s.model)

Interleave_num_virtual_steps(s) == IF s.per_timestep THEN 2 ELSE 1

Interleave_set_num_codebooks(s, n) ==
    LET r == Mono_set_num_codebooks(s.model, n)
    IN  [err |-> r.err, self |-> [s EXCEPT !.model = r.self]]

IsStereo(s) == s.class = "InterleaveStereo"

total_codebooks(s) ==
    IF IsStereo(s) THEN Interleave_total_codebooks(s) ELSE Mono_total_codebooks(s)

num_codebooks(s) ==
    IF IsStereo(s) THEN Interleave_num_codebooks(s) ELSE Mono_num_codebooks(s)

cardinality(s) ==
    IF IsStereo(s) THEN Interleave_cardinality(s) ELSE Mono_cardinality(s)

set_num_codebooks(s, n) ==
    IF IsStereo(s) THEN Interleave_set_num_codebooks(s, n)
    ELSE Mono_set_num_codebooks(s, n)

\* the codebook counts target bandwidths give: ascending, at most MaxTotal
PossibleNumCodebooks ==
    {q \in SeqsOf(1..MaxTotal, 1..MaxTotal) :
        \A i \in 1..Len(q), j \in 1..Len(q) : i < j => q[i] < q[j]}

\* the backends get_pretrained and the constructors build
MonoBackends ==
    {DAC(t) : t \in 1..MaxTotal}
    \cup {SQCodec(d, t) : d \in {e \in 1..LatentDim : LatentDim % e = 0},
                          t \in BOOLEAN}
    \cup {WavTokenizer}
    \cup {HFEncodec(q, c, nz) : q \in PossibleNumCodebooks, c \in {1, 2},
                                nz \in BOOLEAN}
    \cup {EncodecModel(t, c, r) : t \in 1..MaxTotal, c \in {1, 2}, r \in BOOLEAN}

\* InterleaveStereoCompressionModel.__init__ asserts model.channels == 1
Backends ==
    MonoBackends
    \cup {InterleaveStereo(m, p) :
             m \in {b \in MonoBackends : Mono_channels(b) = 1}, p \in BOOLEAN}

Call(op, arg, err) == [Idle EXCEPT !.op = op, !.arg = arg, !.err = err]

P_set_num_codebooks(n) ==
    /\ out = Idle
    /\ LET r == set_num_codebooks(self, n)
       IN  /\ self' = r.self
           /\ out' = Call("set_num_codebooks", n, r.err)

\* SQCodec.set_cardinality, on the backend or on the one a wrapper holds
P_set_cardinality(n) ==
    \/ /\ self.class = "SQCodec" /\ out = Idle
       /\ LET r == SQCodec_set_cardinality(self, n)
          IN  /\ self' = r.self
              /\ out' = Call("set_cardinality", n, r.err)
    \/ /\ IsStereo(self) /\ self.model.class = "SQCodec" /\ out = Idle
       /\ LET r == SQCodec_set_cardinality(self.model, n)
          IN  /\ self' = [self EXCEPT !.model = r.self]
              /\ out' = Call("set_cardinality", n, r.err)

\* forward: EncodecModel runs its networks, every other class raises
P_forward ==
    /\ out = Idle
    /\ out' = Call("forward", 0,
                   IF self.class = "EncodecModel" THEN "none"
                   ELSE "NotImplementedError")
    /\ UNCHANGED self

\* HFEncodecCompressionModel.encode: list.index finds the first position of
\* num_codebooks in possible_num_codebooks (ValueError when there is none)
\* and the codes have the codebooks of the target bandwidth at that position
HFEncodec_encode(s) ==
    LET q == s.possible_num_codebooks
        hits == {i \in 1..Len(q) : q[i] = s.num_codebooks}
    IN  IF hits = {} THEN [err |-> "ValueError", bandwidth_index |-> 0, K |-> 0]
        ELSE LET i == CHOOSE h \in hits : \A g \in hits : h <= g
             IN  [err |-> "none", bandwidth_index |-> i, K |-> q[i]]

\* the codebooks of the codes a backend's encode returns
Mono_encode_K(s) ==
    CASE s.class = "SQCodec" ->
            IF s.use_ternary THEN LatentDim
            ELSE Len(chunk([i \in 1..LatentDim |-> 0], s.n_codebook))
      [] s.class = "WavTokenizer" -> 1
      [] s.class = "HFEncodec" -> HFEncodec_encode(s).K
      [] OTHER -> Mono_num_codebooks(s)

Mono_encode_err(s) ==
    IF s.class = "HFEncodec" THEN HFEncodec_encode(s).err ELSE "none"

\* whether a backend's encode returns a scale
Mono_encode_scale(s) ==
    CASE s.class = "EncodecModel" -> s.renormalize
      [] s.class = "HFEncodec" -> s.model.config.normalize
      [] OTHER -> FALSE

P_encode ==
    /\ ~IsStereo(self) /\ out = Idle
    /\ out' = [Call("encode", 0, Mono_encode_err(self)) EXCEPT
                  !.K = Mono_encode_K(self),
                  !.has_scale = Mono_encode_scale(self)]
    /\ UNCHANGED self

\* decode of codes of the active width, with or without a scale
Mono_decode_err(s, scale) ==
    CASE s.class \in {"DAC", "SQCodec", "WavTokenizer"} ->
            IF scale THEN "AssertionError" ELSE "none"
      [] s.class = "EncodecModel" ->
            IF scale /\ ~s.renormalize THEN "AssertionError" ELSE "none"
      [] s.class = "HFEncodec" -> "none"

P_decode(scale) ==
    /\ ~IsStereo(self) /\ out = Idle
    /\ out' = [Call("decode", 0, Mono_decode_err(self, scale)) EXCEPT
                  !.K = Mono_num_codebooks(self), !.has_scale = scale]
    /\ UNCHANGED self

P_decode_latent ==
    /\ out = Idle
    /\ out' = Call("decode_latent", 0,
                   IF self.class \in {"WavTokenizer", "InterleaveStereo"}
                   THEN "NotImplementedError" ELSE "none")
    /\ UNCHANGED self

InitPolicy ==
    /\ self \in Backends
    /\ out = Idle

NextPolicy ==
    \/ out = Idle /\ \E n \in 0..MaxArg : P_set_num_codebooks(n)
    \/ out = Idle /\ \E n \in 0..MaxArg : P_set_cardinality(n)
    \/ P_forward
    \/ P_encode
    \/ \E scale \in BOOLEAN : P_decode(scale)
    \/ P_decode_latent
    \/ Return

SpecPolicy == InitPolicy /\ [][NextPolicy]_vars

\* the counts set_num_codebooks is to accept: the allowed discrete set of a
\* bandwidth-tier backend, 1..total_codebooks of any other
AllowedCounts(s) ==
    LET m == IF IsStereo(s) THEN s.model ELSE s
    IN  IF m.class = "HFEncodec"
        THEN {m.possible_num_codebooks[i] : i \in 1..Len(m.possible_num_codebooks)}
        ELSE 1..Mono_total_codebooks(m)

\* C4: on every backend set_num_codebooks(n) succeeds exactly for the n in
\* 1..total_codebooks (for a backend with a discrete allowed set: for the n
\* in that set) and rejects every other n.
C4_SetNumCodebooks ==
    [][out'.op = "set_num_codebooks"
          => (out'.err = "none" <=> out'.arg \in AllowedCounts(self))]_vars

\* C5: in every reachable state of every backend, the stereo wrapper in both
\* modes included, 1 <= num_codebooks <= total_codebooks.
C5_CodebookRange ==
    1 <= num_codebooks(self) /\ num_codebooks(self) <= total_codebooks(self)

\* C6: no operation on a backend changes the total_codebooks or the
\* cardinality it reports.
C6_FixedAtConstruction ==
    [][/\ total_codebooks(self') = total_codebooks(self)
       /\ cardinality(self') = cardinality(self)]_vars

(***************************************************************************)
(* InterleaveStereoCompressionModel.  A tensor [B, K, T] is a sequence of  *)
(* B sequences of K sequences of T values; a scale [B, 1] is a sequence of *)
(* B values, the stacked scale [B, 2, 1] a sequence of B pairs.            *)
(***************************************************************************)
\* largest batch and largest number of frames of a code tensor
MaxB == 2
MaxT == 2
\* most elements of a code tensor (of one channel, or handed to decode)
MaxElems == 4

DimB(c) == Len(c)

DimK(c) == Len(c[1])

DimT(c) == Len(c[1][1])

Tensors(B, K, T, S) == [1..B -> [1..K -> [1..T -> S]]]

\* einops.rearrange(indices, 'c b k t -> b k (t c)', c=2)
rearrange_b_k_tc(ind) ==
    [b \in 1..DimB(ind[1]) |-> [k \in 1..DimK(ind[1]) |->
        [j \in 1..(2 * DimT(ind[1])) |->
            ind[((j - 1) % 2) + 1][b][k][((j - 1) \div 2) + 1]]]]

\* einops.rearrange(indices, 'c b k t -> b (k c) t', c=2)
rearrange_b_kc_t(ind) ==
    [b \in 1..DimB(ind[1]) |-> [j \in 1..(2 * DimK(ind[1])) |->
        [t \in 1..DimT(ind[1]) |->
            ind[((j - 1) % 2) + 1][b][((j - 1) \div 2) + 1][t]]]]

\* the same with the axes grouped as (c t) and (c k): one channel after the
\* other instead of alternating
rearrange_b_k_ct(ind) ==
    [b \in 1..DimB(ind[1]) |-> [k \in 1..DimK(ind[1]) |->
        [j \in 1..(2 * DimT(ind[1])) |->
            ind[((j - 1) \div DimT(ind[1])) + 1][b][k][((j - 1) % DimT(ind[1])) + 1]]]]

rearrange_b_ck_t(ind) ==
    [b \in 1..DimB(ind[1]) |-> [j \in 1..(2 * DimK(ind[1])) |->
        [t \in 1..DimT(ind[1]) |->
            ind[((j - 1) \div DimK(ind[1])) + 1][b][((j - 1) % DimK(ind[1])) + 1][t]]]]

\* einops.rearrange(codes, 'b k (t c) -> c b k t', c=2)
rearrange_c_b_k_t_from_tc(codes) ==
    [c \in 1..2 |-> [b \in 1..DimB(codes) |-> [k \in 1..DimK(codes) |->
        [t \in 1..(DimT(codes) \div 2) |-> codes[b][k][(t - 1) * 2 + c]]]]]

\* einops.rearrange(codes, 'b (k c) t -> c b k t', c=2)
rearrange_c_b_k_t_from_kc(codes) ==
    [c \in 1..2 |-> [b \in 1..DimB(codes) |-> [k \in 1..(DimK(codes) \div 2) |->
        [t \in 1..DimT(codes) |-> codes[b][(k - 1) * 2 + c][t]]]]]

rearrange_c_b_k_t_from_ct(codes) ==
    [c \in 1..2 |-> [b \in 1..DimB(codes) |-> [k \in 1..DimK(codes) |->
        [t \in 1..(DimT(codes) \div 2) |->
            codes[b][k][(c - 1) * (DimT(codes) \div 2) + t]]]]]

rearrange_c_b_k_t_from_ck(codes) ==
    [c \in 1..2 |-> [b \in 1..DimB(codes) |-> [k \in 1..(DimK(codes) \div 2) |->
        [t \in 1..DimT(codes) |->
            codes[b][(c - 1) * (DimK(codes) \div 2) + k][t]]]]]

\* the scales stacked with dim=0: a leading axis of size 2
StackScales_dim0(s0, s1) == <<s0, s1>>

\* torch.stack([scales_c0, scales_c1], dim=1)
StackScales(s0, s1) == [b \in 1..Len(s0) |-> <<s0[b], s1[b]>>]

\* encode, lines 740-750: the interleaved codes with the stacked scales
Interleaved(codes, s0, s1) ==
    [err |-> "none",
     codes |-> codes,
     scale |-> IF s0 # NoTensor /\ s1 # NoTensor THEN StackScales(s0, s1)
               ELSE NoTensor]

\* encode with the codebook axis grouped as (c k)
Interleave_encode_ck(s, L, R, s0, s1) ==
    Interleaved(IF s.per_timestep THEN rearrange_b_k_tc(<<L, R>>)
                ELSE rearrange_b_ck_t(<<L, R>>), s0, s1)

\* encode with the time axis grouped as (c t)
Interleave_encode_ct(s, L, R, s0, s1) ==
    Interleaved(IF s.per_timestep THEN rearrange_b_k_ct(<<L, R>>)
                ELSE rearrange_b_kc_t(<<L, R>>), s0, s1)

Interleave_encode(s, L, R, s0, s1) ==
    Interleaved(IF s.per_timestep THEN rearrange_b_k_tc(<<L, R>>)
                ELSE rearrange_b_kc_t(<<L, R>>), s0, s1)

\* einops raises when the interleaved axis does not split in two
Splits(s, codes) ==
    (IF s.per_timestep THEN DimT(codes) ELSE DimK(codes)) % 2 = 0

\* get_left_right_codes splitting the axes as (c t) and (c k)
Interleave_get_left_right_codes_halves(s, codes) ==
    IF ~Splits(s, codes)
    THEN [err |-> "EinopsError", left |-> NoTensor, right |-> NoTensor]
    ELSE LET lr == IF s.per_timestep THEN rearrange_c_b_k_t_from_ct(codes)
                   ELSE rearrange_c_b_k_t_from_ck(codes)
         IN  [err |-> "none", left |-> lr[1], right |-> lr[2]]

Interleave_get_left_right_codes(s, codes) ==
    IF ~Splits(s, codes)
    THEN [err |-> "EinopsError", left |-> NoTensor, right |-> NoTensor]
    ELSE LET lr == IF s.per_timestep THEN rearrange_c_b_k_t_from_tc(codes)
                   ELSE rearrange_c_b_k_t_from_kc(codes)
         IN  [err |-> "none", left |-> lr[1], right |-> lr[2]]

\* EncodecModel.decode/postprocess of codes [B, K, T] with a scale: the
\* assert of line 215, then the broadcast of scale.view(-1, 1, 1) over B
Mono_decode_call(m, codes, scale) ==
    IF m.class = "EncodecModel"
    THEN IF scale # NoTensor /\ ~m.renormalize THEN "AssertionError"
         ELSE IF scale # NoTensor /\ DimB(codes) # 1
                 /\ Len(scale) \notin {1, DimB(codes)} THEN "RuntimeError"
         ELSE "none"
    ELSE Mono_decode_err(m, scale # NoTensor)

\* decode, lines 764-773, once the asserts on the codes have passed
DecodeChannels(s, codes, scale) ==
    IF scale # NoTensor /\ ~(Len(scale) = DimB(codes) /\ Len(scale[1]) = 2)
    THEN [err |-> "AssertionError", calls |-> <<>>]
    ELSE IF scale # NoTensor /\ Len(scale) < 2
    THEN [err |-> "IndexError", calls |-> <<>>]
    ELSE LET scale_c0 == IF scale = NoTensor THEN NoTensor ELSE scale[1]
             scale_c1 == IF scale = NoTensor THEN NoTensor ELSE scale[2]
             lr == Interleave_get_left_right_codes(s, codes)
             c0 == [codes |-> lr.left, scale |-> scale_c0]
             c1 == [codes |-> lr.right, scale |-> scale_c1]
             e0 == Mono_decode_call(s.model, lr.left, scale_c0)
             e1 == Mono_decode_call(s.model, lr.right, scale_c1)
         IN  IF lr.err # "none" THEN [err |-> lr.err, calls |-> <<>>]
             ELSE IF e0 # "none" THEN [err |-> e0, calls |-> <<c0>>]
             ELSE [err |-> e1, calls |-> <<c0, c1>>]

\* decode without the assert of line 762 on the codebook axis
Interleave_decode_nokcheck(s, codes, scale) ==
    IF DimT(codes) % Interleave_num_virtual_steps(s) # 0
    THEN [err |-> "AssertionError", calls |-> <<>>]
    ELSE DecodeChannels(s, codes, scale)

Interleave_decode(s, codes, scale) ==
    IF DimT(codes) % Interleave_num_virtual_steps(s) # 0
    THEN [err |-> "AssertionError", calls |-> <<>>]
    ELSE IF DimK(codes) # Interleave_num_codebooks(s)
    THEN [err |-> "AssertionError", calls |-> <<>>]
    ELSE DecodeChannels(s, codes, scale)

\* the scale preprocess computes for a channel of batch item b: a positive
\* number of its own
ScaleOf(b, c) == 2 * b + c

\* what model.encode returns for the two channels of a batch of B items of
\* T frames: any codes below the cardinality, and a scale if it renormalizes
ChannelCodes(m) ==
    UNION {Tensors(B, Mono_encode_K(m), T, 0..(Mono_cardinality(m) - 1)) \X
           Tensors(B, Mono_encode_K(m), T, 0..(Mono_cardinality(m) - 1)) :
              <<B, T>> \in {bt \in (1..MaxB) \X (1..MaxT) :
                               bt[1] * Mono_encode_K(m) * bt[2] <= MaxElems}}

ChannelScale(m, B, c) ==
    IF Mono_encode_scale(m) THEN [b \in 1..B |-> ScaleOf(b, c)] ELSE NoTensor

\* code tensors and scales a caller hands to decode
DecodeCodes ==
    UNION {Tensors(B, K, T, 0..(Bins - 1)) :
              <<B, K, T>> \in {bkt \in (1..MaxB) \X (1..(2 * MaxTotal)) \X (1..(2 * MaxT)) :
                                  bkt[1] * bkt[2] * bkt[3] <= MaxElems}}

DecodeScales ==
    {NoTensor} \cup
    {[b \in 1..B |-> [c \in 1..C |-> ScaleOf(b, c - 1)]] :
        B \in 1..MaxB, C \in 1..3}

\* encode of audio with C channels
St_encode(C, L, R) ==
    /\ IsStereo(self) /\ out = Idle
    /\ IF C # 2
       THEN out' = [Idle EXCEPT !.op = "encode", !.arg = C,
                                !.err = "AssertionError"]
       ELSE LET s0 == ChannelScale(self.model, DimB(L), 0)
                s1 == ChannelScale(self.model, DimB(R), 1)
                r == Interleave_encode(self, L, R, s0, s1)
            IN  out' = [Idle EXCEPT !.op = "encode", !.arg = C, !.err = r.err,
                                    !.x = <<L, R>>, !.xscale = <<s0, s1>>,
                                    !.codes = r.codes, !.scale = r.scale]
    /\ UNCHANGED self

\* with fromEncode the codes are those the encode just made returned, and
\* x, xscale keep what model.encode had returned for the channels
St_get_left_right_codes(codes, fromEncode) ==
    /\ IsStereo(self)
    /\ IF fromEncode
       THEN out.op = "encode" /\ out.err = "none" /\ codes = out.codes
       ELSE out = Idle
    /\ LET r == Interleave_get_left_right_codes(self, codes)
       IN  out' = [Idle EXCEPT !.op = "get_left_right_codes", !.err = r.err,
                               !.x = IF fromEncode THEN out.x ELSE NoTensor,
                               !.codes = codes,
                               !.emb = <<r.left, r.right>>]
    /\ UNCHANGED self

St_decode(codes, scale, fromEncode) ==
    /\ IsStereo(self)
    /\ IF fromEncode
       THEN /\ out.op = "encode" /\ out.err = "none" /\ codes = out.codes
            /\ scale \in {out.scale, NoTensor}
       ELSE out = Idle
    /\ LET r == Interleave_decode(self, codes, scale)
       IN  out' = [Idle EXCEPT !.op = "decode", !.err = r.err,
                               !.x = IF fromEncode THEN out.x ELSE NoTensor,
                               !.xscale = IF fromEncode THEN out.xscale
                                          ELSE NoTensor,
                               !.codes = codes, !.scale = scale,
                               !.calls = r.calls]
    /\ UNCHANGED self

InitStereo ==
    /\ \E t \in 1..MaxTotal, p \in BOOLEAN :
          \E m \in {DAC(t)} \cup {EncodecModel(t, 1, r) : r \in BOOLEAN} :
             self = InterleaveStereo(m, p)
    /\ out = Idle

NextStereo ==
    \/ out = Idle /\ \E n \in 0..MaxArg : P_set_num_codebooks(n)
    \/ out = Idle /\ \E C \in {1, 3} : St_encode(C, NoTensor, NoTensor)
    \/ out = Idle /\ \E LR \in ChannelCodes(self.model) : St_encode(2, LR[1], LR[2])
    \/ out = Idle /\ \E codes \in DecodeCodes :
                        St_get_left_right_codes(codes, FALSE)
    \/ St_get_left_right_codes(out.codes, TRUE)
    \/ out = Idle /\ \E codes \in DecodeCodes, scale \in DecodeScales :
                        St_decode(codes, scale, FALSE)
    \/ \E scale \in {out.scale, NoTensor} : St_decode(out.codes, scale, TRUE)
    \/ P_forward
    \/ P_decode_latent
    \/ Return

SpecStereo == InitStereo /\ [][NextStereo]_vars

(***************************************************************************)
(* StereoInterleaver claims, checked under SpecStereo.  Indices are from   *)
(* 1: codebook 2i of the source is row 2i+1 here.                          *)
(***************************************************************************)
\* every row of a tensor has K codebooks of T frames
HasShape(c, B, K, T) ==
    /\ Len(c) = B
    /\ \A b \in 1..B : Len(c[b]) = K /\ \A k \in 1..K : Len(c[b][k]) = T

\* C7: with per_timestep = false, encode of a stereo frame whose channels
\* the backend encodes to L and R, each [B, K, T], returns C of shape
\* [B, 2K, T] with codebook 2i of C the codebook i of L and codebook 2i+1 of C
\* the codebook i of R (i from 0).
C7_CodebookAxis ==
    (out.op = "encode" /\ out.arg = 2 /\ ~self.per_timestep) =>
        LET L == out.x[1]
            R == out.x[2]
            C == out.codes
        IN  /\ out.err = "none"
            /\ HasShape(C, DimB(L), 2 * DimK(L), DimT(L))
            /\ \A b \in 1..DimB(L), i \in 1..DimK(L), t \in 1..DimT(L) :
                  /\ C[b][2 * i - 1][t] = L[b][i][t]
                  /\ C[b][2 * i][t] = R[b][i][t]

C7_Witness ==
    /\ out.op = "encode" /\ out.err = "none" /\ ~self.per_timestep
    /\ DimK(out.x[1]) = 2 /\ DimT(out.x[1]) = 2
    /\ out.x[1] = <<<< <<0, 1>>, <<1, 1>> >>>>
    /\ out.x[2] = <<<< <<1, 0>>, <<0, 0>> >>>>
    /\ out.codes = <<<< <<0, 1>>, <<1, 0>>, <<1, 1>>, <<0, 0>> >>>>

\* C8: with per_timestep = true, encode returns C of shape [B, K, 2T] with
\* frame 2t of C the frame t of L and frame 2t+1 of C the frame t of R
\* (t from 0).
C8_TimeAxis ==
    (out.op = "encode" /\ out.arg = 2 /\ self.per_timestep) =>
        LET L == out.x[1]
            R == out.x[2]
            C == out.codes
        IN  /\ out.err = "none"
            /\ HasShape(C, DimB(L), DimK(L), 2 * DimT(L))
            /\ \A b \in 1..DimB(L), k \in 1..DimK(L), t \in 1..DimT(L) :
                  /\ C[b][k][2 * t - 1] = L[b][k][t]
                  /\ C[b][k][2 * t] = R[b][k][t]

C8_Witness ==
    /\ out.op = "encode" /\ out.err = "none" /\ self.per_timestep
    /\ out.x[1] = <<<< <<0, 1>>, <<1, 1>> >>>>
    /\ out.x[2] = <<<< <<1, 0>>, <<0, 0>> >>>>
    /\ out.codes = <<<< <<0, 1, 1, 0>>, <<1, 0, 1, 0>> >>>>

\* C9: in both modes get_left_right_codes applied to the tensor encode built
\* from L and R returns exactly (L, R), and the codes decode hands to the
\* wrapped backend for a channel are those the channel's encode produced.
C9_DeinterleaveInverts ==
    /\ (out.op = "get_left_right_codes" /\ out.x # NoTensor) =>
          (out.err = "none" /\ out.emb = out.x)
    /\ (out.op = "decode" /\ out.x # NoTensor) =>
          /\ Len(out.calls) >= 1 => out.calls[1].codes = out.x[1]
          /\ Len(out.calls) = 2 => out.calls[2].codes = out.x[2]
          /\ out.scale = NoTensor => Len(out.calls) = 2

C9_Witness ==
    /\ out.op = "decode" /\ out.err = "none" /\ Len(out.calls) = 2
    /\ out.x # NoTensor
    /\ DimB(out.x[1]) = 2 /\ DimK(out.x[1]) = 2
    /\ out.x[1] # out.x[2] /\ out.x[1][1] # out.x[1][2]
    /\ out.calls[1].codes = out.x[1] /\ out.calls[2].codes = out.x[2]

\* whether the codes handed to decode fail one of its two asserts on them
BadShape ==
    \/ DimT(out.codes) % Interleave_num_virtual_steps(self) # 0
    \/ DimK(out.codes) # num_codebooks(self)

\* C10 as stated: decode rejects, before calling the wrapped backend, every
\* code tensor whose time axis is not a multiple of the number of virtual
\* steps or whose codebook axis differs from num_codebooks, and every tensor
\* that passes both checks is de-interleaved and decoded.
C10_ShapeChecksDecide ==
    out.op = "decode" =>
        IF BadShape THEN out.err = "AssertionError" /\ out.calls = <<>>
        ELSE out.err = "none" /\ Len(out.calls) = 2

\* C10 as amended: the rejections as stated; a tensor that passes both
\* checks is de-interleaved and handed to the wrapped backend, left channel
\* then right, when the call supplies no scale.
C10_ShapeChecksNoScale ==
    out.op = "decode" =>
        IF BadShape THEN out.err = "AssertionError" /\ out.calls = <<>>
        ELSE out.scale = NoTensor =>
                LET C == out.codes
                    K == IF self.per_timestep THEN DimK(C) ELSE DimK(C) \div 2
                    T == IF self.per_timestep THEN DimT(C) \div 2 ELSE DimT(C)
                IN  /\ out.err = "none" /\ Len(out.calls) = 2
                    /\ \A c \in 1..2 :
                          /\ out.calls[c].scale = NoTensor
                          /\ HasShape(out.calls[c].codes, DimB(C), K, T)
                          /\ \A b \in 1..DimB(C), k \in 1..K, t \in 1..T :
                                out.calls[c].codes[b][k][t] =
                                   IF self.per_timestep
                                   THEN C[b][k][2 * (t - 1) + c]
                                   ELSE C[b][2 * (k - 1) + c][t]

C10_Witness ==
    /\ out.op = "decode" /\ self.per_timestep /\ out.x = NoTensor
    /\ DimT(out.codes) = 3 /\ DimK(out.codes) = num_codebooks(self)
    /\ out.err = "AssertionError" /\ out.calls = <<>>

(***************************************************************************)
(* Every backend with every call of the interface: the calls of SpecPolicy *)
(* and the stereo wrapper's decode of any codes with any scale.            *)
(***************************************************************************)
NextBackend ==
    \/ NextPolicy
    \/ out = Idle /\ \E codes \in DecodeCodes, scale \in DecodeScales :
                        St_decode(codes, scale, FALSE)

SpecBackend == InitPolicy /\ [][NextBackend]_vars

\* whether the decode call made supplied a scale
SuppliesScale == IF IsStereo(self) THEN out.scale # NoTensor ELSE out.has_scale

\* whether the backend's encode returns a scale
ProducesScale == Mono_encode_scale(IF IsStereo(self) THEN self.model ELSE self)

\* C11: decode rejects a call that supplies a scale when the backend's
\* encode never produces one, and a call that supplies no scale when the
\* backend's encode always produces one; encode returns a scale on every
\* call or on none.
C11_InconsistentScale ==
    /\ out.op = "decode" => (SuppliesScale # ProducesScale => out.err # "none")
    /\ (out.op = "encode" /\ ~IsStereo(self)) => out.has_scale = ProducesScale

\* C12 as stated: when the wrapped backend returns a scale for both
\* channels, encode returns a scale whose leading axis has size 2, index 0
\* holding the left channel's scales and index 1 the right channel's; when
\* the wrapped backend returns no scale, encode returns none.
C12_ScaleLeadingAxis ==
    (out.op = "encode" /\ out.arg = 2) =>
        IF out.xscale[1] # NoTensor /\ out.xscale[2] # NoTensor
        THEN /\ Len(out.scale) = 2
             /\ out.scale[1] = out.xscale[1]
             /\ out.scale[2] = out.xscale[2]
        ELSE out.scale = NoTensor

\* C12 as amended: the new axis of size 2 follows the batch axis; for every
\* batch item b, index 0 along it holds the left channel's scale of b and
\* index 1 the right channel's scale of b.
C12_ScaleChannelAxis ==
    (out.op = "encode" /\ out.arg = 2) =>
        IF out.xscale[1] # NoTensor /\ out.xscale[2] # NoTensor
        THEN /\ Len(out.scale) = DimB(out.x[1])
             /\ \A b \in 1..DimB(out.x[1]) :
                   /\ Len(out.scale[b]) = 2
                   /\ out.scale[b][1] = out.xscale[1][b]
                   /\ out.scale[b][2] = out.xscale[2][b]
        ELSE out.scale = NoTensor

C12_Witness ==
    /\ out.op = "encode" /\ out.err = "none"
    /\ out.xscale = << <<2, 4>>, <<3, 5>> >>
    /\ out.scale = << <<2, 3>>, <<4, 5>> >>

\* what a caller can observe of a backend's configuration, and of the
\* backend a stereo wrapper holds
Observable(s) ==
    <<num_codebooks(s), total_codebooks(s), cardinality(s),
      IF IsStereo(s)
      THEN <<Mono_num_codebooks(s.model), Mono_total_codebooks(s.model),
             Mono_cardinality(s.model)>>
      ELSE <<>> >>

\* C13: a call that fails (a rejected set_num_codebooks or set_cardinality,
\* a rejected decode, an unsupported forward or decode_latent) leaves
\* num_codebooks, total_codebooks and cardinality as they were, on the
\* backend and on the backend a stereo wrapper holds.
C13_FailureAtomic ==
    [][out'.err # "none" => Observable(self') = Observable(self)]_vars

C13_Witness ==
    /\ IsStereo(self) /\ self.model.class = "DAC"
    /\ self.model.model.n_codebooks = 2 /\ self.model.n_quantizers = 1
    /\ out.op = "set_num_codebooks" /\ out.arg = 3
    /\ out.err = "AssertionError"

\* C14: for a wrapped backend that produces scales and any batch size,
\* decode of the (codes, scale) pair encode returned hands to the wrapped
\* backend's left-channel decode exactly the per-batch scales the
\* left-channel encode returned, and to the right-channel decode those the
\* right-channel encode returned.
C14_ScaleRoundTrip ==
    (out.op = "decode" /\ out.x # NoTensor /\ out.scale # NoTensor) =>
        /\ Len(out.calls) = 2
        /\ out.calls[1].scale = out.xscale[1]
        /\ out.calls[2].scale = out.xscale[2]

\* the bandwidth-tier backend in use, alone or held by a stereo wrapper
Tiered == IF IsStereo(self) THEN self.model ELSE self

\* C15: on HFEncodecCompressionModel, after construction and any accepted
\* or rejected set_num_codebooks calls, num_codebooks is a member of
\* possible_num_codebooks; encode's lookup of the bandwidth index does not
\* fail and encode uses the bandwidth whose codebook count is num_codebooks.
C15_BandwidthTier ==
    Tiered.class = "HFEncodec" =>
        /\ InSeq(Tiered.num_codebooks, Tiered.possible_num_codebooks)
        /\ HFEncodec_encode(Tiered).err = "none"
        /\ Tiered.possible_num_codebooks[HFEncodec_encode(Tiered).bandwidth_index]
              = Mono_num_codebooks(Tiered)
        /\ (out.op = "encode" /\ ~IsStereo(self)) =>
              (out.err = "none" /\ out.K = num_codebooks(self))

C15_Witness ==
    /\ self.class = "HFEncodec"
    /\ self.possible_num_codebooks = <<1, 2, 3>> /\ self.num_codebooks = 2
    /\ out.op = "encode" /\ out.err = "none" /\ out.K = 2

====
